---- MODULE Spec2Model ----
(***************************************************************************)
(* Model of src/shared_ptr.h: control_block, shared_ptr<T>, weak_ptr<T>    *)
(* and make_shared.  Control blocks are numbered 1..MaxBlocks in order of  *)
(* allocation, 0 is nullptr.  Handles live in numbered slots; a slot is    *)
(* either not constructed (live = FALSE) or holds the two fields of the    *)
(* handle, shared_block and focused_object.  Every public operation of the *)
(* two handle types is one action; a temporary an operation creates is     *)
(* created and destroyed inside its action.  Payload destructors and       *)
(* deleters are inert: delete_object is counted and performs no handle     *)
(* operation.  Every allocation succeeds.  A behaviour is a sequence of at *)
(* most MaxOps operations on at most NumShared shared_ptr and NumWeak      *)
(* weak_ptr objects and MaxBlocks control blocks.                          *)
(***************************************************************************)
EXTENDS Integers, FiniteSets

\* ---- bounds of the model ------------------------------------------------
MaxBlocks == 2
NumShared == 2
NumWeak == 2
MaxOps == 5

Blocks == 1..MaxBlocks
SharedIds == 1..NumShared
WeakIds == 1..NumWeak

\* Object addresses.  0 is nullptr; address b is the payload managed by block b (the
\* caller's new object, or the inline storage of a make_shared block); SubObject is
\* the address of a member, the payload of no block.
SubObject == MaxBlocks + 1
Ptr == 0..SubObject
\* The pointer given to an aliasing constructor.
AliasPtr == {SubObject}
\* The pointer given to shared_ptr(Y*) or reset(Y*) when block b is about to be
\* created for it: nullptr, or the caller's new object.
RawPtr(b) == {0, b}

VARIABLES
    allocated,        \* [Blocks -> BOOLEAN]: the block has been created by new
    strong_counter,   \* control_block::strong_counter
    weak_counter,     \* control_block::weak_counter
    delete_calls,     \* history: number of delete_object() calls on the block
    dealloc_calls,    \* history: number of `delete shared_block` on the block
    sp,               \* the shared_ptr objects
    wp,               \* the weak_ptr objects
    last_op,          \* history: the operation performed last
    ops               \* history: the number of operations performed

vars == <<allocated, strong_counter, weak_counter, delete_calls, dealloc_calls,
          sp, wp, last_op, ops>>

\* ---- the heap of control blocks ------------------------------------------
Heap == [allocated |-> allocated, strong_counter |-> strong_counter,
         weak_counter |-> weak_counter,
         delete_calls |-> delete_calls, dealloc_calls |-> dealloc_calls]

\* The control blocks after an operation; every operation counts towards MaxOps.
Commit(H) ==
    /\ ops < MaxOps
    /\ ops' = ops + 1
    /\ allocated' = H.allocated
    /\ strong_counter' = H.strong_counter
    /\ weak_counter' = H.weak_counter
    /\ delete_calls' = H.delete_calls
    /\ dealloc_calls' = H.dealloc_calls

NullHandle == [live |-> TRUE, shared_block |-> 0, focused_object |-> 0]
NoHandle == [live |-> FALSE, shared_block |-> 0, focused_object |-> 0]
Handle(b, p) == [live |-> TRUE, shared_block |-> b, focused_object |-> p]

\* A new handle object takes the first slot that holds none (slots are interchangeable).
Unused(hs, h) == ~hs[h].live /\ \A k \in 1..(h - 1) : hs[k].live

\* new control_block_ptr / new control_block_t: the blocks are numbered as allocated
HasFreeBlock(H) == \E b \in Blocks : ~H.allocated[b]
FreshBlock(H) == CHOOSE b \in Blocks : ~H.allocated[b] /\ \A c \in 1..(b - 1) : H.allocated[c]

\* control_block(): strong_counter = 1, weak_counter = 0
new_control_block(H, b) ==
    [H EXCEPT !.allocated[b] = TRUE, !.strong_counter[b] = 1, !.weak_counter[b] = 0]

\* get_ptr(): the inline storage of block b
InlineAddr(b) == b

\* deleter(control_object) or get_ptr()->~T()
delete_object(H, b) == [H EXCEPT !.delete_calls[b] = @ + 1]

\* delete shared_block
delete_block(H, b) == [H EXCEPT !.dealloc_calls[b] = @ + 1]

\* ---- shared_ptr private helpers -----------------------------------------
\* Faulty variant: the increment is forgotten
add_strong_forgotten(H, b) == H

add_strong(H, b) ==
    IF b # 0 THEN [H EXCEPT !.strong_counter[b] = @ + 1] ELSE H

\* Faulty variant: the block is deleted without looking at weak_counter
release_strong_ignores_weak(H, b) ==
    IF b = 0 THEN H
    ELSE LET H1 == [H EXCEPT !.strong_counter[b] = @ - 1] IN
         IF H1.strong_counter[b] = 0
         THEN delete_block(delete_object(H1, b), b)
         ELSE H1

\* The counters are size_t; --counter is modelled on the integers, and C3_Counters
\* shows that no operation decrements a counter that is 0.
release_strong(H, b) ==
    IF b = 0 THEN H
    ELSE LET H1 == [H EXCEPT !.strong_counter[b] = @ - 1] IN
         IF H1.strong_counter[b] = 0
         THEN LET H2 == delete_object(H1, b) IN
              IF H2.weak_counter[b] = 0 THEN delete_block(H2, b) ELSE H2
         ELSE H1

\* ---- weak_ptr private helpers -------------------------------------------
\* Faulty variant: the weak handle takes a strong reference
add_weak_as_strong(H, b) ==
    IF b # 0 THEN [H EXCEPT !.strong_counter[b] = @ + 1] ELSE H

add_weak(H, b) ==
    IF b # 0 THEN [H EXCEPT !.weak_counter[b] = @ + 1] ELSE H

\* Faulty variant: the last weak handle leaves the block allocated
release_weak_keeps_block(H, b) ==
    IF b = 0 THEN H ELSE [H EXCEPT !.weak_counter[b] = @ - 1]

release_weak(H, b) ==
    IF b = 0 THEN H
    ELSE LET H1 == [H EXCEPT !.weak_counter[b] = @ - 1] IN
         IF H1.weak_counter[b] = 0 /\ H1.strong_counter[b] = 0
         THEN delete_block(H1, b)
         ELSE H1

\* ---- observers ----------------------------------------------------------
get(h) == h.focused_object
use_count(H, h) == IF h.shared_block # 0 THEN H.strong_counter[h.shared_block] ELSE 0
operator_bool(h) == h.focused_object # 0
\* Faulty variant: equality of the control blocks
SharedEq_by_block(l, r) == l.shared_block = r.shared_block

SharedEq(l, r) == get(l) = get(r)
SharedNe(l, r) == ~SharedEq(l, r)
\* operator==(shared_ptr, nullptr_t), operator!=(shared_ptr, nullptr_t)
SharedEqNull(l) == get(l) = 0
SharedNeNull(l) == get(l) # 0

\* Faulty variant: the weak handle reports the number of weak references
weak_use_count_of_weak(H, w) == IF w.shared_block # 0 THEN H.weak_counter[w.shared_block] ELSE 0

weak_use_count(H, w) == IF w.shared_block # 0 THEN H.strong_counter[w.shared_block] ELSE 0

\* Faulty variant: a weak handle never reports expiry
expired_never(H, w) == FALSE

expired(H, w) == weak_use_count(H, w) = 0

\* ---- what the handles say about a block ----------------------------------
BlockLive(b) == allocated[b] /\ dealloc_calls[b] = 0
StrongOn(hs, b) == {h \in SharedIds : hs[h].live /\ hs[h].shared_block = b}
WeakOn(hs, b) == {w \in WeakIds : hs[w].live /\ hs[w].shared_block = b}
IsNull(h) == h.live /\ h.shared_block = 0 /\ h.focused_object = 0
\* f with the entry of block b (none for nullptr) changed by d
Bump(f, b, d) == [c \in Blocks |-> IF c = b THEN f[c] + d ELSE f[c]]

Init ==
    /\ allocated = [b \in Blocks |-> FALSE]
    /\ delete_calls = [b \in Blocks |-> 0]
    /\ dealloc_calls = [b \in Blocks |-> 0]
    /\ strong_counter = [b \in Blocks |-> 0]
    /\ weak_counter = [b \in Blocks |-> 0]
    /\ sp = [h \in SharedIds |-> NoHandle]
    /\ wp = [w \in WeakIds |-> NoHandle]
    /\ last_op = "init"
    /\ ops = 0

\* ---- shared_ptr constructors and destructor ------------------------------
SharedDefault(h) ==
    /\ Unused(sp, h)
    /\ sp' = [sp EXCEPT ![h] = NullHandle]
    /\ last_op' = "SharedDefault"
    /\ Commit(Heap)
    /\ UNCHANGED wp

SharedFromPtr(h, p) ==
    /\ Unused(sp, h)
    /\ HasFreeBlock(Heap)
    /\ LET b == FreshBlock(Heap) IN
        /\ p \in RawPtr(b)
        /\ sp' = [sp EXCEPT ![h] = Handle(b, p)]
        /\ Commit(new_control_block(Heap, b))
    /\ last_op' = "SharedFromPtr"
    /\ UNCHANGED wp

MakeShared(h) ==
    /\ Unused(sp, h)
    /\ HasFreeBlock(Heap)
    /\ LET b == FreshBlock(Heap) IN
        /\ sp' = [sp EXCEPT ![h] = Handle(b, InlineAddr(b))]
        /\ Commit(new_control_block(Heap, b))
    /\ last_op' = "MakeShared"
    /\ UNCHANGED wp

\* Faulty variant: the aliasing copy takes no strong reference
SharedAliasCopy_no_add(h, o, p) ==
    /\ Unused(sp, h) /\ sp[o].live
    /\ sp' = [sp EXCEPT ![h] = Handle(sp[o].shared_block, p)]
    /\ Commit(Heap)
    /\ last_op' = "SharedAliasCopy"
    /\ UNCHANGED wp

SharedAliasCopy(h, o, p) ==
    /\ Unused(sp, h) /\ sp[o].live
    /\ sp' = [sp EXCEPT ![h] = Handle(sp[o].shared_block, p)]
    /\ Commit(add_strong(Heap, sp[o].shared_block))
    /\ last_op' = "SharedAliasCopy"
    /\ UNCHANGED wp

SharedAliasMove(h, o, p) ==
    /\ Unused(sp, h) /\ sp[o].live
    /\ sp' = [sp EXCEPT ![h] = Handle(sp[o].shared_block, p), ![o] = NullHandle]
    /\ Commit(Heap)
    /\ last_op' = "SharedAliasMove"
    /\ UNCHANGED wp

SharedCopy(h, o) ==
    /\ Unused(sp, h) /\ sp[o].live
    /\ sp' = [sp EXCEPT ![h] = Handle(sp[o].shared_block, sp[o].focused_object)]
    /\ Commit(add_strong(Heap, sp[o].shared_block))
    /\ last_op' = "SharedCopy"
    /\ UNCHANGED wp

\* shared_ptr() then swap(other)
SharedMove(h, o) ==
    /\ Unused(sp, h) /\ sp[o].live
    /\ sp' = [sp EXCEPT ![h] = sp[o], ![o] = NullHandle]
    /\ Commit(Heap)
    /\ last_op' = "SharedMove"
    /\ UNCHANGED wp

SharedFromWeak(h, w) ==
    /\ Unused(sp, h) /\ wp[w].live
    /\ sp' = [sp EXCEPT ![h] = Handle(wp[w].shared_block, wp[w].focused_object)]
    /\ Commit(add_strong(Heap, wp[w].shared_block))
    /\ last_op' = "SharedFromWeak"
    /\ UNCHANGED wp

SharedDestroy(h) ==
    /\ sp[h].live
    /\ sp' = [sp EXCEPT ![h] = NoHandle]
    /\ Commit(release_strong(Heap, sp[h].shared_block))
    /\ last_op' = "SharedDestroy"
    /\ UNCHANGED wp

\* ---- shared_ptr assignment and modifiers ------------------------------
\* Faulty variant: no guard against self-assignment
SharedAssign_unguarded(a, b) ==
    /\ sp[a].live /\ sp[b].live
    /\ sp' = [sp EXCEPT ![a] = Handle(sp[b].shared_block, sp[b].focused_object)]
    /\ Commit(add_strong(release_strong(Heap, sp[a].shared_block), sp[b].shared_block))
    /\ last_op' = (IF a = b THEN "SharedAssignSelf" ELSE "SharedAssign")
    /\ UNCHANGED wp

\* operator=(const shared_ptr&): guarded by *this != other, which compares get()
SharedAssign(a, b) ==
    /\ sp[a].live /\ sp[b].live
    /\ IF SharedNe(sp[a], sp[b])
       THEN /\ sp' = [sp EXCEPT ![a] = Handle(sp[b].shared_block, sp[b].focused_object)]
            /\ Commit(add_strong(release_strong(Heap, sp[a].shared_block), sp[b].shared_block))
       ELSE /\ sp' = sp
            /\ Commit(Heap)
    /\ last_op' = (IF a = b THEN "SharedAssignSelf" ELSE "SharedAssign")
    /\ UNCHANGED wp

\* template operator=(const shared_ptr<Y>&): another handle type, so another object
SharedAssignY(a, b) ==
    /\ a # b
    /\ sp[a].live /\ sp[b].live
    /\ sp' = [sp EXCEPT ![a] = Handle(sp[b].shared_block, sp[b].focused_object)]
    /\ Commit(add_strong(release_strong(Heap, sp[a].shared_block), sp[b].shared_block))
    /\ last_op' = "SharedAssignY"
    /\ UNCHANGED wp

\* Faulty variant: the target's previous binding is overwritten, not released
SharedMoveAssign_no_release(a, b) ==
    /\ sp[a].live /\ sp[b].live
    /\ LET temp == sp[b]
           sp1 == [sp EXCEPT ![b] = NullHandle]
       IN /\ sp' = [sp1 EXCEPT ![a] = temp]
          /\ Commit(Heap)
    /\ last_op' = (IF a = b THEN "SharedMoveAssignSelf" ELSE "SharedMoveAssign")
    /\ UNCHANGED wp

\* shared_ptr(std::move(other)).swap(*this); the temporary is destroyed at the end
SharedMoveAssign(a, b) ==
    /\ sp[a].live /\ sp[b].live
    /\ LET temp == sp[b]
           sp1 == [sp EXCEPT ![b] = NullHandle]
           temp2 == sp1[a]
       IN /\ sp' = [sp1 EXCEPT ![a] = temp]
          /\ Commit(release_strong(Heap, temp2.shared_block))
    /\ last_op' = (IF a = b THEN "SharedMoveAssignSelf" ELSE "SharedMoveAssign")
    /\ UNCHANGED wp

SharedSwap(a, b) ==
    /\ sp[a].live /\ sp[b].live
    /\ sp' = [sp EXCEPT ![a] = sp[b], ![b] = sp[a]]
    /\ Commit(Heap)
    /\ last_op' = "SharedSwap"
    /\ UNCHANGED wp

\* Faulty variant: the handle is nulled without releasing its strong reference
SharedReset_no_release(h) ==
    /\ sp[h].live
    /\ sp' = [sp EXCEPT ![h] = NullHandle]
    /\ Commit(Heap)
    /\ last_op' = "SharedReset"
    /\ UNCHANGED wp

SharedReset(h) ==
    /\ sp[h].live
    /\ sp' = [sp EXCEPT ![h] = NullHandle]
    /\ Commit(release_strong(Heap, sp[h].shared_block))
    /\ last_op' = "SharedReset"
    /\ UNCHANGED wp

\* reset(ptr, del): release_strong(), then new control_block_ptr (allocation succeeds)
SharedResetPtr(h, p) ==
    /\ sp[h].live
    /\ LET H1 == release_strong(Heap, sp[h].shared_block) IN
        /\ HasFreeBlock(H1)
        /\ LET b == FreshBlock(H1) IN
            /\ p \in RawPtr(b)
            /\ sp' = [sp EXCEPT ![h] = Handle(b, p)]
            /\ Commit(new_control_block(H1, b))
    /\ last_op' = "SharedResetPtr"
    /\ UNCHANGED wp

\* ---- weak_ptr ------------------------------------------------------------
WeakDefault(w) ==
    /\ Unused(wp, w)
    /\ wp' = [wp EXCEPT ![w] = NullHandle]
    /\ Commit(Heap)
    /\ last_op' = "WeakDefault"
    /\ UNCHANGED sp

WeakCopy(w, o) ==
    /\ Unused(wp, w) /\ wp[o].live
    /\ wp' = [wp EXCEPT ![w] = Handle(wp[o].shared_block, wp[o].focused_object)]
    /\ Commit(add_weak(Heap, wp[o].shared_block))
    /\ last_op' = "WeakCopy"
    /\ UNCHANGED sp

WeakFromShared(w, s) ==
    /\ Unused(wp, w) /\ sp[s].live
    /\ wp' = [wp EXCEPT ![w] = Handle(sp[s].shared_block, sp[s].focused_object)]
    /\ Commit(add_weak(Heap, sp[s].shared_block))
    /\ last_op' = "WeakFromShared"
    /\ UNCHANGED sp

\* weak_ptr() then swap(other)
WeakMove(w, o) ==
    /\ Unused(wp, w) /\ wp[o].live
    /\ wp' = [wp EXCEPT ![w] = wp[o], ![o] = NullHandle]
    /\ Commit(Heap)
    /\ last_op' = "WeakMove"
    /\ UNCHANGED sp

WeakDestroy(w) ==
    /\ wp[w].live
    /\ wp' = [wp EXCEPT ![w] = NoHandle]
    /\ Commit(release_weak(Heap, wp[w].shared_block))
    /\ last_op' = "WeakDestroy"
    /\ UNCHANGED sp

\* operator=(const weak_ptr&): guarded by this != &other
WeakAssign(a, b) ==
    /\ wp[a].live /\ wp[b].live
    /\ IF a # b
       THEN /\ wp' = [wp EXCEPT ![a] = Handle(wp[b].shared_block, wp[b].focused_object)]
            /\ Commit(add_weak(release_weak(Heap, wp[a].shared_block), wp[b].shared_block))
       ELSE /\ wp' = wp
            /\ Commit(Heap)
    /\ last_op' = (IF a = b THEN "WeakAssignSelf" ELSE "WeakAssign")
    /\ UNCHANGED sp

\* template operator=(const weak_ptr<Y>&): another handle type, so another object
WeakAssignY(a, b) ==
    /\ a # b
    /\ wp[a].live /\ wp[b].live
    /\ wp' = [wp EXCEPT ![a] = Handle(wp[b].shared_block, wp[b].focused_object)]
    /\ Commit(add_weak(release_weak(Heap, wp[a].shared_block), wp[b].shared_block))
    /\ last_op' = "WeakAssignY"
    /\ UNCHANGED sp

WeakAssignShared(a, s) ==
    /\ wp[a].live /\ sp[s].live
    /\ wp' = [wp EXCEPT ![a] = Handle(sp[s].shared_block, sp[s].focused_object)]
    /\ Commit(add_weak(release_weak(Heap, wp[a].shared_block), sp[s].shared_block))
    /\ last_op' = "WeakAssignShared"
    /\ UNCHANGED sp

\* weak_ptr<T>(std::move(other)).swap(*this); the temporary is destroyed at the end
WeakMoveAssign(a, b) ==
    /\ wp[a].live /\ wp[b].live
    /\ LET temp == wp[b]
           wp1 == [wp EXCEPT ![b] = NullHandle]
           temp2 == wp1[a]
       IN /\ wp' = [wp1 EXCEPT ![a] = temp]
          /\ Commit(release_weak(Heap, temp2.shared_block))
    /\ last_op' = (IF a = b THEN "WeakMoveAssignSelf" ELSE "WeakMoveAssign")
    /\ UNCHANGED sp

WeakReset(w) ==
    /\ wp[w].live
    /\ wp' = [wp EXCEPT ![w] = NullHandle]
    /\ Commit(release_weak(Heap, wp[w].shared_block))
    /\ last_op' = "WeakReset"
    /\ UNCHANGED sp

WeakSwap(a, b) ==
    /\ wp[a].live /\ wp[b].live
    /\ wp' = [wp EXCEPT ![a] = wp[b], ![b] = wp[a]]
    /\ Commit(Heap)
    /\ last_op' = "WeakSwap"
    /\ UNCHANGED sp

\* lock(): expired() ? shared_ptr<T>() : shared_ptr<T>(*this); the result is sp[h]
WeakLock(h, w) ==
    /\ Unused(sp, h) /\ wp[w].live
    /\ IF expired(Heap, wp[w])
       THEN /\ sp' = [sp EXCEPT ![h] = NullHandle]
            /\ Commit(Heap)
       ELSE /\ sp' = [sp EXCEPT ![h] = Handle(wp[w].shared_block, wp[w].focused_object)]
            /\ Commit(add_strong(Heap, wp[w].shared_block))
    /\ last_op' = "WeakLock"
    /\ UNCHANGED wp

Next ==
    \/ \E h \in SharedIds : SharedDefault(h)
    \/ \E h \in SharedIds, p \in Ptr : SharedFromPtr(h, p)
    \/ \E h \in SharedIds : MakeShared(h)
    \/ \E h, o \in SharedIds, p \in AliasPtr : SharedAliasCopy(h, o, p)
    \/ \E h, o \in SharedIds, p \in AliasPtr : SharedAliasMove(h, o, p)
    \/ \E h, o \in SharedIds : SharedCopy(h, o)
    \/ \E h, o \in SharedIds : SharedMove(h, o)
    \/ \E h \in SharedIds, w \in WeakIds : SharedFromWeak(h, w)
    \/ \E h \in SharedIds : SharedDestroy(h)
    \/ \E a, b \in SharedIds : SharedAssign(a, b)
    \/ \E a, b \in SharedIds : SharedAssignY(a, b)
    \/ \E a, b \in SharedIds : SharedMoveAssign(a, b)
    \/ \E a, b \in SharedIds : SharedSwap(a, b)
    \/ \E h \in SharedIds : SharedReset(h)
    \/ \E h \in SharedIds, p \in Ptr : SharedResetPtr(h, p)
    \/ \E w \in WeakIds : WeakDefault(w)
    \/ \E w, o \in WeakIds : WeakCopy(w, o)
    \/ \E w \in WeakIds, s \in SharedIds : WeakFromShared(w, s)
    \/ \E w, o \in WeakIds : WeakMove(w, o)
    \/ \E w \in WeakIds : WeakDestroy(w)
    \/ \E a, b \in WeakIds : WeakAssign(a, b)
    \/ \E a, b \in WeakIds : WeakAssignY(a, b)
    \/ \E a \in WeakIds, s \in SharedIds : WeakAssignShared(a, s)
    \/ \E a, b \in WeakIds : WeakMoveAssign(a, b)
    \/ \E w \in WeakIds : WeakReset(w)
    \/ \E a, b \in WeakIds : WeakSwap(a, b)
    \/ \E h \in SharedIds, w \in WeakIds : WeakLock(h, w)

Spec == Init /\ [][Next]_vars

\* ---- reset(ptr, del) when new throws ---------------------------------------
\* A handle is bound to a block that has been deallocated.
Dangling ==
    \/ \E h \in SharedIds : sp[h].live /\ sp[h].shared_block # 0 /\ ~BlockLive(sp[h].shared_block)
    \/ \E w \in WeakIds : wp[w].live /\ wp[w].shared_block # 0 /\ ~BlockLive(wp[w].shared_block)

\* reset(ptr, del): release_strong() has run when new control_block_ptr throws
\* std::bad_alloc; the assignments to shared_block and focused_object are not reached.
SharedResetPtrThrows(h) ==
    /\ sp[h].live
    /\ sp' = sp
    /\ Commit(release_strong(Heap, sp[h].shared_block))
    /\ last_op' = "SharedResetPtrThrows"
    /\ UNCHANGED wp

\* A behaviour is followed until a handle dangles: what the code does with a
\* deallocated block after that is undefined.
NextResetThrows ==
    \/ ~Dangling /\ Next
    \/ \E h \in SharedIds : ~Dangling /\ SharedResetPtrThrows(h)

SpecResetThrows == Init /\ [][NextResetThrows]_vars

\* ---- make_shared when the constructor of T throws --------------------------
\* Faulty variant: the storage of the block is not given back
MakeSharedThrows_leaks(h) ==
    /\ Unused(sp, h)
    /\ HasFreeBlock(Heap)
    /\ sp' = sp
    /\ Commit(new_control_block(Heap, FreshBlock(Heap)))
    /\ last_op' = "MakeSharedThrows"
    /\ UNCHANGED wp

\* make_shared: operator new has returned the storage of the block and control_block()
\* has set the counters when T's constructor throws inside control_block_t(); the
\* new-expression gives the storage back and ret is destroyed while still null.
MakeSharedThrows(h) ==
    /\ Unused(sp, h)
    /\ HasFreeBlock(Heap)
    /\ LET b == FreshBlock(Heap) IN
        /\ sp' = sp
        /\ Commit(delete_block(new_control_block(Heap, b), b))
    /\ last_op' = "MakeSharedThrows"
    /\ UNCHANGED wp

NextMakeSharedThrows ==
    \/ Next
    \/ \E h \in SharedIds : MakeSharedThrows(h)

SpecMakeSharedThrows == Init /\ [][NextMakeSharedThrows]_vars

\* ---- a payload that owns a weak handle to its own block ---------------------
\* ~shared_ptr of sp[h] when the payload has the weak handle wp[w], bound to the
\* payload's own block, as a member. release_strong(): when strong_counter becomes 0,
\* delete_object() runs ~T(), which runs ~weak_ptr() of the member: release_weak() on
\* the same block, deleting the block if that was the last weak handle. The test
\* shared_block->weak_counter == 0 that follows then reads deallocated storage:
\* either value may be read, and 0 deletes the block a second time.
SharedDestroyOwner(h, w) ==
    /\ sp[h].live /\ wp[w].live
    /\ sp[h].shared_block # 0 /\ wp[w].shared_block = sp[h].shared_block
    /\ sp' = [sp EXCEPT ![h] = NoHandle]
    /\ LET b == sp[h].shared_block
           H1 == [Heap EXCEPT !.strong_counter[b] = @ - 1]
           H2 == release_weak(delete_object(H1, b), b)
       IN  IF H1.strong_counter[b] # 0
           THEN /\ wp' = wp
                /\ Commit(H1)
                /\ last_op' = "SharedDestroyOwner"
           ELSE /\ wp' = [wp EXCEPT ![w] = NoHandle]
                /\ IF H2.dealloc_calls[b] > H1.dealloc_calls[b]
                   THEN /\ \E read \in {0, 1} :
                              Commit(IF read = 0 THEN delete_block(H2, b) ELSE H2)
                        /\ last_op' = "SharedDestroyOwnerReadsDeleted"
                   ELSE /\ Commit(IF H2.weak_counter[b] = 0 THEN delete_block(H2, b) ELSE H2)
                        /\ last_op' = "SharedDestroyOwner"

NextPayloadOwnsWeak ==
    \/ Next
    \/ \E h \in SharedIds, w \in WeakIds : SharedDestroyOwner(h, w)

SpecPayloadOwnsWeak == Init /\ [][NextPayloadOwnsWeak]_vars

\* ---- claims ---------------------------------------------------------------
\* C1: delete_object is invoked at most once on each control block, and only at a
\* step where that block's strong_counter goes from 1 to 0.
C1_DeleteObjectOnce ==
    [][\A b \in Blocks :
          delete_calls'[b] # delete_calls[b] =>
              /\ delete_calls[b] = 0
              /\ delete_calls'[b] = 1
              /\ strong_counter[b] = 1
              /\ strong_counter'[b] = 0]_vars

C3_CountersCountHandles ==
    /\ \A b \in Blocks : BlockLive(b) =>
          /\ strong_counter[b] = Cardinality(StrongOn(sp, b))
          /\ weak_counter[b] = Cardinality(WeakOn(wp, b))
    /\ \A h \in SharedIds : (sp[h].live /\ sp[h].shared_block # 0) =>
          /\ BlockLive(sp[h].shared_block)
          /\ use_count(Heap, sp[h]) = Cardinality(StrongOn(sp, sp[h].shared_block))
    /\ \A w \in WeakIds : (wp[w].live /\ wp[w].shared_block # 0) =>
          BlockLive(wp[w].shared_block)

C4_UpgradeConstruct ==
    [][\A h \in SharedIds, w \in WeakIds :
          (SharedFromWeak(h, w) /\ wp[w].shared_block # 0) =>
              LET b == wp[w].shared_block IN
              IF strong_counter[b] = 0
              THEN IsNull(sp'[h]) /\ strong_counter'[b] = 0
              ELSE /\ sp'[h] = Handle(b, wp[w].focused_object)
                   /\ strong_counter' = Bump(strong_counter, b, 1)]_vars

\* C5: when the last strong handle of a block is dropped while a weak handle is bound
\* to it, the payload is destroyed at that step and the block stays allocated; the
\* block stays allocated as long as a weak handle is bound to it; and it is
\* deallocated at the step at which the last such weak handle is dropped.
C5_WeakKeepsBlockOnly ==
    [][\A b \in Blocks :
          /\ (strong_counter[b] = 1 /\ strong_counter'[b] = 0 /\ weak_counter[b] >= 1) =>
                /\ delete_calls'[b] = delete_calls[b] + 1
                /\ dealloc_calls'[b] = 0
          /\ WeakOn(wp', b) # {} => dealloc_calls'[b] = 0
          /\ (delete_calls[b] >= 1 /\ WeakOn(wp, b) # {} /\ WeakOn(wp', b) = {}) =>
                dealloc_calls'[b] = 1]_vars

\* C6: lock() returns a null strong handle iff the weak handle is unbound or its
\* block's strong_counter is 0; otherwise the result shares the weak handle's block
\* and payload reference, strong_counter is one more than before and weak_counter is
\* unchanged.
C6_Lock ==
    [][\A h \in SharedIds, w \in WeakIds :
          WeakLock(h, w) =>
              LET b == wp[w].shared_block IN
              /\ IsNull(sp'[h]) <=> (b = 0 \/ strong_counter[b] = 0)
              /\ ~IsNull(sp'[h]) =>
                    /\ sp'[h] = Handle(b, wp[w].focused_object)
                    /\ strong_counter' = Bump(strong_counter, b, 1)
                    /\ use_count(Heap', sp'[h]) = weak_use_count(Heap, wp[w]) + 1
              /\ IsNull(sp'[h]) => strong_counter' = strong_counter
              /\ weak_counter' = weak_counter
              /\ wp' = wp]_vars

\* C6 witness: lock() has just returned a null handle for a weak handle that is still
\* bound to a block whose strong_counter is 0.
C6_Witness ==
    /\ last_op = "WeakLock"
    /\ \E w \in WeakIds : /\ wp[w].live /\ wp[w].shared_block # 0
                          /\ strong_counter[wp[w].shared_block] = 0
    /\ \E h \in SharedIds : IsNull(sp[h])

\* C7: for distinct strong handles a and b, whatever their payload references and
\* blocks, after a = b the handle a holds b's block and payload reference, b's block
\* has gained one strong reference and a's previous block has lost one.
C7_CopyAssign ==
    [][\A a, b \in SharedIds :
          (a # b /\ SharedAssign(a, b)) =>
              /\ sp'[a] = Handle(sp[b].shared_block, sp[b].focused_object)
              /\ strong_counter' =
                    Bump(Bump(strong_counter, sp[a].shared_block, -1), sp[b].shared_block, 1)]_vars
\* C8: self-assignment h = h is a no-op for strong and for weak handles: handles,
\* counters, payloads and blocks are all unchanged.
C8_SelfAssign ==
    [][/\ \A a \in SharedIds : SharedAssign(a, a) =>
              UNCHANGED <<sp, wp, allocated, strong_counter, weak_counter,
                          delete_calls, dealloc_calls>>
       /\ \A a \in WeakIds : WeakAssign(a, a) =>
              UNCHANGED <<sp, wp, allocated, strong_counter, weak_counter,
                          delete_calls, dealloc_calls>>]_vars

\* C8 witness: a strong handle that is the only handle of its block has just been
\* assigned to itself, and the payload is intact.
C8_Witness ==
    /\ last_op = "SharedAssignSelf"
    /\ \E h \in SharedIds :
          /\ sp[h].live /\ sp[h].shared_block # 0
          /\ strong_counter[sp[h].shared_block] = 1
          /\ weak_counter[sp[h].shared_block] = 0
          /\ delete_calls[sp[h].shared_block] = 0

\* The effect C9 states for a move from handle o to handle h of the array hs, whose
\* kind is counted by cnt (the other kind by other); prev is the block h was bound to
\* before a move assignment, 0 for a move construction.
MoveEffect(hs, cnt, other, h, o, prev) ==
    /\ hs'[h] = Handle(hs[o].shared_block, hs[o].focused_object)
    /\ IsNull(hs'[o])
    /\ cnt' = Bump(cnt, prev, -1)
    /\ other' = other

\* C9 as stated: every move construction and move assignment, of strong and of weak
\* handles, gives the target the source's block and payload reference, leaves the
\* source null and changes no counter but that of the target's previous block,
\* which loses one reference of the target's kind.
C9_MoveAsStated ==
    [][/\ \A h, o \in SharedIds : SharedMove(h, o) =>
              MoveEffect(sp, strong_counter, weak_counter, h, o, 0)
       /\ \A h, o \in WeakIds : WeakMove(h, o) =>
              MoveEffect(wp, weak_counter, strong_counter, h, o, 0)
       /\ \A a, b \in SharedIds : SharedMoveAssign(a, b) =>
              MoveEffect(sp, strong_counter, weak_counter, a, b, sp[a].shared_block)
       /\ \A a, b \in WeakIds : WeakMoveAssign(a, b) =>
              MoveEffect(wp, weak_counter, strong_counter, a, b, wp[a].shared_block)]_vars

\* C9 amended: the same for a source and a target that are different handles; a move
\* assignment of a handle to itself changes nothing.
C9_Move ==
    [][/\ \A h, o \in SharedIds : SharedMove(h, o) =>
              MoveEffect(sp, strong_counter, weak_counter, h, o, 0)
       /\ \A h, o \in WeakIds : WeakMove(h, o) =>
              MoveEffect(wp, weak_counter, strong_counter, h, o, 0)
       /\ \A a, b \in SharedIds : (a # b /\ SharedMoveAssign(a, b)) =>
              MoveEffect(sp, strong_counter, weak_counter, a, b, sp[a].shared_block)
       /\ \A a, b \in WeakIds : (a # b /\ WeakMoveAssign(a, b)) =>
              MoveEffect(wp, weak_counter, strong_counter, a, b, wp[a].shared_block)
       /\ \A a \in SharedIds : SharedMoveAssign(a, a) =>
              UNCHANGED <<sp, wp, strong_counter, weak_counter, delete_calls, dealloc_calls>>
       /\ \A a \in WeakIds : WeakMoveAssign(a, a) =>
              UNCHANGED <<sp, wp, strong_counter, weak_counter, delete_calls, dealloc_calls>>]_vars

\* C9 witness: a move assignment between two strong handles bound to different blocks
\* has left the source null and the target on the source's block, and the target's
\* previous block has lost its last reference.
C9_Witness ==
    /\ last_op = "SharedMoveAssign"
    /\ \E a, b \in SharedIds, old \in Blocks :
          /\ a # b /\ IsNull(sp[b])
          /\ sp[a].live /\ sp[a].shared_block \notin {0, old}
          /\ strong_counter[sp[a].shared_block] = 1
          /\ delete_calls[old] = 1 /\ dealloc_calls[old] = 1

C11_ResetThrowsLeavesNull ==
    [][\A h \in SharedIds :
          SharedResetPtrThrows(h) =>
              /\ IsNull(sp'[h])
              /\ strong_counter' = Bump(strong_counter, sp[h].shared_block, -1)]_vars

\* C12: make_shared returns a handle on a fresh block with strong_counter 1 and
\* weak_counter 0 whose payload reference is the inline storage of that block; when
\* the construction of the payload throws, no handle comes into being, delete_object
\* is not called and the block allocated for it is deallocated.
C12_MakeShared ==
    [][\A h \in SharedIds :
          /\ MakeShared(h) =>
                LET b == sp'[h].shared_block IN
                    /\ b # 0 /\ ~allocated[b]
                    /\ allocated'[b] /\ dealloc_calls'[b] = 0 /\ delete_calls'[b] = 0
                    /\ strong_counter'[b] = 1 /\ weak_counter'[b] = 0
                    /\ sp'[h].live /\ get(sp'[h]) = InlineAddr(b)
          /\ MakeSharedThrows(h) =>
                /\ sp' = sp
                /\ delete_calls' = delete_calls
                /\ \A b \in Blocks : allocated'[b] /\ ~allocated[b] => dealloc_calls'[b] = 1]_vars

C12_Witness ==
    /\ last_op = "MakeSharedThrows"
    /\ \E b \in Blocks : allocated[b] /\ dealloc_calls[b] = 1 /\ delete_calls[b] = 0
    /\ \E h \in SharedIds, b \in Blocks :
          /\ sp[h] = Handle(b, InlineAddr(b))
          /\ BlockLive(b) /\ strong_counter[b] = 1 /\ weak_counter[b] = 0

\* C13: expired() of a weak handle is true iff the handle is unbound or the
\* strong_counter of its block is 0, and its use_count() is that strong_counter, or 0
\* when unbound; once no strong handle is left on a block, every weak handle on it
\* reports expired() and use_count() = 0, and lock() on it gives a null handle.
C13_Observers ==
    \A w \in WeakIds : wp[w].live =>
        LET b == wp[w].shared_block IN
        /\ expired(Heap, wp[w]) <=> (b = 0 \/ strong_counter[b] = 0)
        /\ weak_use_count(Heap, wp[w]) = (IF b = 0 THEN 0 ELSE strong_counter[b])
        /\ (b # 0 /\ StrongOn(sp, b) = {}) =>
              (expired(Heap, wp[w]) /\ weak_use_count(Heap, wp[w]) = 0)

C14_WeakStep ==
  /\ sp' = sp
  /\
    \/ \E w \in WeakIds : WeakDefault(w) \/ WeakDestroy(w) \/ WeakReset(w)
    \/ \E w, o \in WeakIds :
          \/ WeakCopy(w, o) \/ WeakMove(w, o) \/ WeakAssign(w, o)
          \/ WeakAssignY(w, o) \/ WeakMoveAssign(w, o) \/ WeakSwap(w, o)
    \/ \E w \in WeakIds, s \in SharedIds : WeakFromShared(w, s) \/ WeakAssignShared(w, s)

C14_StrongStep ==
  /\ wp' = wp
  /\
    \/ \E h \in SharedIds :
          SharedDefault(h) \/ MakeShared(h) \/ SharedDestroy(h) \/ SharedReset(h)
    \/ \E h \in SharedIds, p \in Ptr : SharedFromPtr(h, p) \/ SharedResetPtr(h, p)
    \/ \E h, o \in SharedIds, p \in AliasPtr : SharedAliasCopy(h, o, p) \/ SharedAliasMove(h, o, p)
    \/ \E h, o \in SharedIds :
          \/ SharedCopy(h, o) \/ SharedMove(h, o) \/ SharedAssign(h, o)
          \/ SharedAssignY(h, o) \/ SharedMoveAssign(h, o) \/ SharedSwap(h, o)
    \/ \E h \in SharedIds, w \in WeakIds : SharedFromWeak(h, w)

C14_Frame ==
    [][/\ strong_counter' # strong_counter => ~C14_WeakStep
       /\ weak_counter' # weak_counter => ~C14_StrongStep]_vars

\* C14 witness: a weak handle bound to another block has just been assigned from a
\* strong handle, so one weak reference was dropped and one taken.
C14_Witness ==
    /\ last_op = "WeakAssignShared"
    /\ \E b, c \in Blocks :
          /\ b # c /\ allocated[b] /\ allocated[c]
          /\ strong_counter[b] = 1 /\ weak_counter[b] = 1
          /\ strong_counter[c] = 1 /\ weak_counter[c] = 0

\* C15: two strong handles are equal iff their payload references are equal, whatever
\* blocks they hold: on one block with different payload references they are unequal,
\* on different blocks with equal payload references they are equal; a handle is equal
\* to nullptr iff its payload reference is null.
C15_Equality ==
    /\ \A a, b \in SharedIds : (sp[a].live /\ sp[b].live) =>
          /\ SharedEq(sp[a], sp[b]) <=> (sp[a].focused_object = sp[b].focused_object)
          /\ SharedNe(sp[a], sp[b]) <=> (sp[a].focused_object # sp[b].focused_object)
          /\ (sp[a].shared_block = sp[b].shared_block
                /\ sp[a].focused_object # sp[b].focused_object) => ~SharedEq(sp[a], sp[b])
          /\ (sp[a].shared_block # sp[b].shared_block
                /\ sp[a].focused_object = sp[b].focused_object) => SharedEq(sp[a], sp[b])
    /\ \A a \in SharedIds : sp[a].live =>
          /\ SharedEqNull(sp[a]) <=> (sp[a].focused_object = 0)
          /\ SharedNeNull(sp[a]) <=> ~SharedEqNull(sp[a])

\* C15 witness: an aliasing copy shares the block of its source and exposes another
\* payload reference.
C15_Witness ==
    /\ last_op = "SharedAliasCopy"
    /\ \E a, b \in SharedIds :
          /\ sp[a].live /\ sp[b].live /\ a # b
          /\ sp[a].shared_block = sp[b].shared_block /\ sp[a].shared_block # 0
          /\ sp[a].focused_object # sp[b].focused_object
          /\ SharedNe(sp[a], sp[b])

\* C16: in every reachable state the payload of a block has been destroyed iff the
\* strong_counter of the block is 0, and no live strong handle is bound to a block
\* whose payload has been destroyed.
C16_PayloadDestroyedIffZero ==
    \A b \in Blocks : allocated[b] =>
        /\ (delete_calls[b] >= 1) <=> (strong_counter[b] = 0)
        /\ delete_calls[b] >= 1 => StrongOn(sp, b) = {}

\* C17: once the strong_counter of a block has reached 0 no operation makes it
\* positive again, so a weak handle that has reported expired() reports it for as long
\* as it stays bound to that block.
C17_ExpiryPermanent ==
    [][/\ \A b \in Blocks :
             (allocated[b] /\ strong_counter[b] = 0) => strong_counter'[b] = 0
       /\ \A w \in WeakIds :
             (wp[w].live /\ wp[w].shared_block # 0 /\ expired(Heap, wp[w])
                 /\ wp'[w] = wp[w]) => expired(Heap', wp'[w])]_vars

\* C18: no leak: a control block to which no live strong handle and no live weak
\* handle is bound has had its payload destroyed and has been deallocated, in
\* whatever order its handles were dropped (every allocation succeeds).
C18_NoLeak ==
    \A b \in Blocks :
        (allocated[b] /\ StrongOn(sp, b) = {} /\ WeakOn(wp, b) = {}) =>
            (delete_calls[b] >= 1 /\ dealloc_calls[b] = 1)

\* C18 witness: the weak handle was dropped after the last strong handle.
C18_Witness ==
    /\ last_op = "WeakDestroy"
    /\ \E b \in Blocks :
          /\ allocated[b] /\ StrongOn(sp, b) = {} /\ WeakOn(wp, b) = {}
          /\ delete_calls[b] = 1 /\ dealloc_calls[b] = 1
          /\ strong_counter[b] = 0 /\ weak_counter[b] = 0

\* C19: when the destruction of the payload drops the last weak handle to the
\* payload's own block, dropping the last strong handle deallocates the block exactly
\* once and release_strong does not read weak_counter of the deallocated block.
C19_ReentrantRelease ==
    [][\A h \in SharedIds, w \in WeakIds :
          LET b == sp[h].shared_block IN
          (SharedDestroyOwner(h, w) /\ strong_counter[b] = 1 /\ weak_counter[b] = 1) =>
              /\ dealloc_calls'[b] = 1
              /\ last_op' # "SharedDestroyOwnerReadsDeleted"]_vars

\* C20: reset() leaves the handle null (use_count() 0, operator bool false), takes
\* exactly one strong reference from its previous block and destroys the payload iff
\* that was the last one; reset(ptr[, del]) with a successful allocation does the same
\* release and binds the handle to a fresh block with strong_counter 1, weak_counter 0
\* and payload reference ptr; the handle is no longer bound to the previous block, so
\* its destruction does not decrement that block again.
C20_Released(b) ==
    /\ b # 0 => strong_counter'[b] = strong_counter[b] - 1
    /\ \A c \in Blocks : (allocated[c] /\ c # b) => strong_counter'[c] = strong_counter[c]
    /\ delete_calls' = (IF b # 0 /\ strong_counter[b] = 1
                        THEN Bump(delete_calls, b, 1) ELSE delete_calls)
    /\ weak_counter' = weak_counter

C20_Reset ==
    [][/\ \A h \in SharedIds :
             SharedReset(h) =>
                 /\ IsNull(sp'[h])
                 /\ use_count(Heap', sp'[h]) = 0 /\ ~operator_bool(sp'[h])
                 /\ C20_Released(sp[h].shared_block)
                 /\ allocated' = allocated
       /\ \A h \in SharedIds, p \in Ptr :
             SharedResetPtr(h, p) =>
                 LET n == sp'[h].shared_block IN
                 /\ n # 0 /\ n # sp[h].shared_block
                 /\ ~allocated[n] /\ allocated'[n] /\ dealloc_calls'[n] = 0
                 /\ strong_counter'[n] = 1 /\ weak_counter'[n] = 0
                 /\ sp'[h] = Handle(n, p)
                 /\ C20_Released(sp[h].shared_block)]_vars

\* C20 witness: a handle that shared its block with another handle has been reset to a
\* new pointer; the other handle is now the only one on the previous block.
C20_Witness ==
    /\ last_op = "SharedResetPtr"
    /\ \E h, o \in SharedIds, b, n \in Blocks :
          /\ h # o /\ b # n
          /\ sp[h].live /\ sp[h].shared_block = n /\ BlockLive(n)
          /\ strong_counter[n] = 1 /\ weak_counter[n] = 0
          /\ sp[o].live /\ sp[o].shared_block = b /\ BlockLive(b)
          /\ strong_counter[b] = 1 /\ delete_calls[b] = 0
====
